---------------------------- MODULE Spec2Model ----------------------------
(***************************************************************************)
(* Model of the Bn254Accumulator of src/src/lib.rs.                        *)
(*                                                                         *)
(* Algebra.  Fr is the prime field Z_R.  G1, G2 and the pairing's target   *)
(* group are cyclic of the same prime order R, so an element of each is    *)
(* represented by its discrete logarithm to the canonical generator:       *)
(* the generator is 1, the identity (point at infinity) is 0, the scalar   *)
(* multiplication P * s is (P * s) % R and the pairing e(P, Q) is          *)
(* (P * Q) % R, which is bilinear and non-degenerate.  The BN254 order is  *)
(* a 254-bit prime; R is a small prime so that TLC can enumerate the       *)
(* field.  Keccak-256 is an external primitive: it is modelled as a fixed  *)
(* total function from byte strings to a two-byte digest.                  *)
(***************************************************************************)
EXTENDS Integers, Sequences, FiniteSets

\* ------------------------------------------------------------- bounds
\* Largest byte value and longest byte string handed to add_member.
MaxByte == 1
MaxLen == 2
\* Cap on the number of add_member calls made on one accumulator.
MaxAdds == 3

\* ------------------------------------------------------------ algebra
\* Order of the scalar field Fr (and of G1, G2, GT), scaled down.
R == 5

Fr == 0 .. (R - 1)
G1 == 0 .. (R - 1)
Inputs == UNION {[1 .. n -> 0 .. MaxByte] : n \in 0 .. MaxLen}

\* Fr::ONE
FrOne == 1
\* Fr multiplication (product *= xi)
FrMul(p, q) == (p * q) % R
\* G1Projective::generator(), G2Projective::generator()
G1Generator == 1
G2Generator == 1
\* G1Projective * Fr
G1Mul(P, s) == (P * s) % R
\* Bn254::pairing(P, Q), as the exponent of e(g1, g2)
pairing(P, Q) == (P * Q) % R

\* Option<G1Projective>
None == [some |-> FALSE, val |-> 0]
Some(v) == [some |-> TRUE, val |-> v]

\* ---------------------------------------------------- hash_to_scalar
RECURSIVE Absorb(_, _, _)
Absorb(st, input, i) ==
    IF i > Len(input) THEN st
    ELSE Absorb((st * 33 + input[i] + 1) % 65536, input, i + 1)

\* keccak.update(input); keccak.finalize(&mut hash): the digest bytes
Keccak(input) ==
    LET st == Absorb(5381, input, 1) IN <<st % 256, st \div 256>>

RECURSIVE LeBytesToNat(_, _)
LeBytesToNat(bytes, i) ==
    IF i > Len(bytes) THEN 0
    ELSE bytes[i] + 256 * LeBytesToNat(bytes, i + 1)

\* Fr::from_le_bytes_mod_order(&hash)
from_le_bytes_mod_order(bytes) == LeBytesToNat(bytes, 1) % R

hash_to_scalar(input) == from_le_bytes_mod_order(Keccak(input))

\* ------------------------------------------------------- the methods
\* Bn254Accumulator::new()
new == [g1 |-> G1Generator, g2 |-> G2Generator, acc |-> G1Generator,
        members |-> <<>>]

\* add_member with group addition in place of scalar multiplication
add_member_additive(self, member) ==
    LET x == hash_to_scalar(member) IN
    [self |-> [self EXCEPT !.acc = (self.acc + G1Mul(self.g1, x)) % R,
                           !.members = Append(self.members, x)],
     out |-> x]

\* add_member that forgets to fold the scalar into acc
add_member_noacc(self, member) ==
    LET x == hash_to_scalar(member) IN
    [self |-> [self EXCEPT !.members = Append(self.members, x)],
     out |-> x]

\* add_member whose update does not commute
add_member_affine(self, member) ==
    LET x == hash_to_scalar(member) IN
    [self |-> [self EXCEPT !.acc = (G1Mul(self.acc, x) + G1Mul(self.g1, x)) % R,
                           !.members = Append(self.members, x)],
     out |-> x]

\* add_member that records the scalar at the front of members
add_member_front(self, member) ==
    LET x == hash_to_scalar(member) IN
    [self |-> [self EXCEPT !.acc = G1Mul(self.acc, x),
                           !.members = <<x>> \o self.members],
     out |-> x]

\* add_member that leaves acc alone when the scalar is zero
add_member_skipzero(self, member) ==
    LET x == hash_to_scalar(member) IN
    [self |-> [self EXCEPT !.acc = IF x = 0 THEN self.acc
                                   ELSE G1Mul(self.acc, x),
                           !.members = Append(self.members, x)],
     out |-> x]

\* Bn254Accumulator::add_member(&mut self, member): the new self and the
\* returned scalar
add_member(self, member) ==
    LET x == hash_to_scalar(member) IN
    [self |-> [self EXCEPT !.acc = G1Mul(self.acc, x),
                           !.members = Append(self.members, x)],
     out |-> x]

\* the loop with the `!found` test dropped: every occurrence is skipped
RECURSIVE WitnessLoopSkipAll(_, _, _, _, _)
WitnessLoopSkipAll(members, x, i, product, found) ==
    IF i > Len(members) THEN [product |-> product, found |-> found]
    ELSE IF members[i] = x
         THEN WitnessLoopSkipAll(members, x, i + 1, product, TRUE)
         ELSE WitnessLoopSkipAll(members, x, i + 1,
                                 FrMul(product, members[i]), found)

\* for xi in &self.members { ... }: the loop from index i on
RECURSIVE WitnessLoop(_, _, _, _, _)
WitnessLoop(members, x, i, product, found) ==
    IF i > Len(members) THEN [product |-> product, found |-> found]
    ELSE IF members[i] = x /\ ~found
         THEN WitnessLoop(members, x, i + 1, product, TRUE)
         ELSE WitnessLoop(members, x, i + 1,
                          FrMul(product, members[i]), found)

\* membership_witness that skips every occurrence of x
membership_witness_skipall(self, x) ==
    LET r == WitnessLoopSkipAll(self.members, x, 1, FrOne, FALSE) IN
    IF r.found THEN Some(G1Mul(self.g1, r.product)) ELSE None

\* membership_witness that answers Some whether or not x was found
membership_witness_always(self, x) ==
    LET r == WitnessLoop(self.members, x, 1, FrOne, FALSE) IN
    Some(G1Mul(self.g1, r.product))

\* Bn254Accumulator::membership_witness(&self, x)
membership_witness(self, x) ==
    LET r == WitnessLoop(self.members, x, 1, FrOne, FALSE) IN
    IF r.found THEN Some(G1Mul(self.g1, r.product)) ELSE None

\* verify_membership that pairs the witness without multiplying it by x
verify_membership_noscalar(self, x, witness) ==
    pairing(witness, self.g2) = pairing(self.acc, self.g2)

\* Bn254Accumulator::verify_membership(&self, x, witness)
verify_membership(self, x, witness) ==
    LET lhs == pairing(G1Mul(witness, x), self.g2)
        rhs == pairing(self.acc, self.g2)
    IN lhs = rhs

\* ------------------------------------------------------------- state
VARIABLES
    a,         \* the accumulator under test: [g1, g2, acc, members]
    b,         \* a second accumulator (used by SpecOrder only)
    ret,       \* the last call on a or b and what it returned
    held,      \* the last witness membership_witness returned on a
    returned,  \* the scalars add_member has returned on a
    calls      \* the number of add_member calls made on a

vars == <<a, b, ret, held, returned, calls>>

Ret(op, x, w, ok, val) == [op |-> op, x |-> x, w |-> w, ok |-> ok, val |-> val]

NoWitness == [some |-> FALSE, x |-> 0, w |-> 0, n |-> 0, acc |-> 0]

Init ==
    /\ a = new
    /\ b = new
    /\ ret = Ret("new", 0, 0, TRUE, 0)
    /\ held = NoWitness
    /\ returned = {}
    /\ calls = 0

\* let x = acc.add_member(member)
AddMember(member) ==
    /\ calls < MaxAdds
    /\ LET r == add_member(a, member) IN
         /\ a' = r.self
         /\ ret' = Ret("add_member", 0, 0, TRUE, r.out)
         /\ returned' = returned \cup {r.out}
    /\ calls' = calls + 1
    /\ UNCHANGED <<b, held>>

\* let witness = acc.membership_witness(x)
MembershipWitness(x) ==
    /\ LET r == membership_witness(a, x) IN
         /\ ret' = Ret("membership_witness", x, 0, r.some, r.val)
         /\ held' = IF r.some
                    THEN [some |-> TRUE, x |-> x, w |-> r.val,
                          n |-> Len(a.members), acc |-> a.acc]
                    ELSE held
    /\ UNCHANGED <<a, b, returned, calls>>

\* let valid = acc.verify_membership(x, witness)
VerifyMembership(x, witness) ==
    /\ ret' = Ret("verify_membership", x, witness,
                  verify_membership(a, x, witness), 0)
    /\ UNCHANGED <<a, b, held, returned, calls>>

Next ==
    \/ \E member \in Inputs : AddMember(member)
    \/ \E x \in Fr : MembershipWitness(x)
    \/ \E x \in Fr, witness \in G1 : VerifyMembership(x, witness)

Spec == Init /\ [][Next]_vars

\* ------------------------------------------- two accumulators (C6)
\* Number of entries of s equal to x
Count(s, x) == Cardinality({i \in 1 .. Len(s) : s[i] = x})
SubBag(s, t) == \A x \in Fr : Count(s, x) <= Count(t, x)
SameBag(s, t) == \A x \in Fr : Count(s, x) = Count(t, x)

\* add_member on the second accumulator, which is given members of the
\* multiset the first one holds
AddMemberOther(member) ==
    /\ Len(b.members) < MaxAdds
    /\ LET r == add_member(b, member) IN
         /\ SubBag(r.self.members, a.members)
         /\ b' = r.self
         /\ ret' = Ret("add_member", 0, 0, TRUE, r.out)
    /\ UNCHANGED <<a, held, returned, calls>>

NextOrder ==
    \/ \E member \in Inputs : AddMember(member)
    \/ \E member \in Inputs : AddMemberOther(member)

SpecOrder == Init /\ [][NextOrder]_vars

\* ------------------------------------------------------------ claims
\* Field product of the entries of s, with multiplicity
RECURSIVE FrProd(_)
FrProd(s) == IF s = <<>> THEN FrOne ELSE FrMul(Head(s), FrProd(Tail(s)))

\* s with its i-th entry left out
RemoveAt(s, i) == SubSeq(s, 1, i - 1) \o SubSeq(s, i + 1, Len(s))

Occurs(x) == Count(a.members, x) > 0

\* The last call was verify_membership(held.x, held.w) on a
VerifiedHeld ==
    /\ ret.op = "verify_membership"
    /\ held.some
    /\ ret.x = held.x
    /\ ret.w = held.w

\* C1 (completeness): in every reachable state, every scalar that add_member
\* has returned has a witness, and that witness verifies in the same state;
\* a verify_membership call on the held witness, made with no add_member
\* since the witness was computed, returns true.
Completeness ==
    /\ \A x \in returned :
         LET w == membership_witness(a, x) IN
         w.some /\ verify_membership(a, x, w.val)
    /\ (VerifiedHeld /\ held.n = Len(a.members)) => ret.ok

\* A fresh witness of a scalar added twice was verified, acc not the identity
CompletenessWitness ==
    /\ VerifiedHeld
    /\ held.n = Len(a.members)
    /\ ret.ok
    /\ Count(a.members, ret.x) >= 2
    /\ a.acc # 0

\* C2 (not found): membership_witness(x) is None exactly when x does not
\* occur in members, and Some otherwise, for every scalar x in every
\* reachable state and for every call made.
NotFoundSignal ==
    /\ \A x \in Fr : membership_witness(a, x).some <=> Occurs(x)
    /\ ret.op = "membership_witness" => (ret.ok <=> Occurs(ret.x))

\* membership_witness answered None for a never-returned scalar on an
\* accumulator that holds members
NotFoundWitness ==
    /\ ret.op = "membership_witness"
    /\ ~ret.ok
    /\ ret.x \notin returned
    /\ Len(a.members) >= 2

\* The held witness was verified after at least one further add_member
Stale == VerifiedHeld /\ Len(a.members) > held.n

\* The scalars added since the held witness was computed
AddedSince == SubSeq(a.members, held.n + 1, Len(a.members))

\* C3 as stated (staleness rejection): a witness verified after at least one
\* further add_member call is rejected.
StaleRejected == Stale => ~ret.ok

\* C3 as amended: a stale witness is rejected unless acc was the G1 identity
\* when the witness was computed or the field product of the scalars added
\* since equals one; in those two cases it is accepted.
StaleRejectedUnlessCoincidence ==
    Stale => (ret.ok <=> (held.acc = 0 \/ FrProd(AddedSince) = FrOne))

\* A stale witness was rejected
StaleRejectedWitness ==
    /\ Stale
    /\ ~ret.ok
    /\ Len(AddedSince) >= 2

\* C4 as stated (forged-witness rejection): verify_membership(x, w) returns
\* false whenever w is not the witness membership_witness(x) yields in that
\* state, in particular whenever x does not occur in members.
ForgedRejected ==
    (ret.op = "verify_membership" /\ membership_witness(a, ret.x) # Some(ret.w))
        => ~ret.ok

\* C5 (accumulator invariant): acc is g1 scalar-multiplied by the field
\* product of all entries of members, with multiplicity.
AccIsProduct == a.acc = G1Mul(a.g1, FrProd(a.members))

\* Three members, one of them twice, and acc neither g1 nor the identity
AccIsProductWitness ==
    /\ Len(a.members) = 3
    /\ \E x \in Fr : Count(a.members, x) = 2
    /\ a.acc \notin {0, G1Generator}

\* C6 (order independence): two accumulators that hold the same multiset of
\* members have the same acc.
OrderIndependent == SameBag(a.members, b.members) => a.acc = b.acc

\* The two accumulators hold the same three members in different orders
OrderIndependentWitness ==
    /\ SameBag(a.members, b.members)
    /\ a.members # b.members
    /\ Len(a.members) = 3
    /\ a.acc \notin {0, G1Generator}

\* C7 (first-occurrence skip): when x occurs in members, the witness is g1
\* scalar-multiplied by the product of members with one occurrence of x left
\* out, whichever occurrence is taken out; the other copies of x stay in.
FirstOccurrenceSkip ==
    /\ \A i \in 1 .. Len(a.members) :
         membership_witness(a, a.members[i])
             = Some(G1Mul(a.g1, FrProd(RemoveAt(a.members, i))))
    /\ (ret.op = "membership_witness" /\ ret.ok) =>
         \A i \in 1 .. Len(a.members) :
             a.members[i] = ret.x =>
                 ret.val = G1Mul(a.g1, FrProd(RemoveAt(a.members, i)))

\* A witness was computed for a scalar that occurs twice, not at the front,
\* whose copies change the product
FirstOccurrenceSkipWitness ==
    /\ ret.op = "membership_witness"
    /\ ret.ok
    /\ Count(a.members, ret.x) >= 2
    /\ a.members[1] # ret.x
    /\ ret.x \notin {0, FrOne}
    /\ ret.val # 0

\* The step is an add_member call on a that returned the zero scalar
AddsZero == calls' = calls + 1 /\ ret'.val = 0

\* C8 as stated (zero-scalar member): an add_member call whose scalar is
\* zero leaves acc as it was.
ZeroScalarLeavesAcc == [][AddsZero => a'.acc = a.acc]_vars

\* C8 as amended: an add_member call whose scalar is zero sets acc to the G1
\* identity, whatever it was (so acc is unchanged only if it already was the
\* identity), and records the zero scalar at the end of members.
ZeroScalarCollapsesAcc ==
    [][AddsZero => /\ a'.acc = 0
                   /\ (a'.acc = a.acc <=> a.acc = 0)
                   /\ a'.members = Append(a.members, 0)]_vars

\* The zero scalar was just added to an accumulator of nonzero members
ZeroScalarWitness ==
    /\ ret.op = "add_member"
    /\ ret.val = 0
    /\ Len(a.members) >= 2
    /\ a.members[Len(a.members)] = 0
    /\ Count(a.members, 0) = 1
    /\ a.acc = 0

\* C9 (frame, append-only): a step that is not an add_member call leaves the
\* accumulator unchanged; an add_member call appends the scalar it returns at
\* the end of members and leaves the earlier entries, g1 and g2 unchanged;
\* the length of members is the number of add_member calls.
FrameAppendOnly ==
    /\ [](Len(a.members) = calls)
    /\ [][/\ calls' = calls => a' = a
          /\ calls' # calls =>
               /\ calls' = calls + 1
               /\ ret'.op = "add_member"
               /\ a'.members = Append(a.members, ret'.val)
               /\ a'.g1 = a.g1
               /\ a'.g2 = a.g2]_vars

\* Queries were made after several add_member calls
FrameAppendOnlyWitness ==
    /\ ret.op = "verify_membership"
    /\ held.some
    /\ calls >= 2
    /\ Len(a.members) = calls
    /\ a.members[1] # a.members[2]

=============================================================================
